---- MODULE Spec2Model ----
(***************************************************************************)
(* Model of the image-intake-and-relay pipeline of server/server.js:       *)
(* POST /api/repair-image  =  multer upload.single('image')  ->  handler   *)
(* (imageToBase64 -> callOpenRouterAPI -> processImageWithAI -> unlink ->  *)
(* response), with the error handling middleware behind it.  Several       *)
(* requests are in flight at once; every `await` of the handler is a       *)
(* point where another request may run.                                    *)
(***************************************************************************)
EXTENDS Integers, Sequences, FiniteSets, TLC

\* ------------------------------------------------------------------ bounds
NumReqs == 2            \* requests that are sent (concurrently) in one run

\* ------------------------------------------------------- program constants
fileSize == 10          \* limits.fileSize, in MB (10 * 1024 * 1024 bytes)
files == 1              \* limits.files

Reqs == 1..NumReqs

\* ------------------------------------------------------------------ inputs
\* One file part of a multipart body: the form field it is sent under, its
\* declared media type (type, subtype) and its size in MB.
Fieldnames == {"image", "photo"}
Mimetypes == {<<"image", "jpeg">>, <<"text", "plain">>}
Sizes == {3, fileSize, fileSize + 1}
Part ==
    {p \in [fieldname : Fieldnames, mimetype : Mimetypes, size : Sizes] :
        /\ p.fieldname = "photo" => p.mimetype[1] = "image" /\ p.size = 3
        /\ p.size = fileSize => p.mimetype[1] = "image"}

\* What the external API can do with the one fetch of a request.
\* fetch rejects (network error), or resolves with a response: a status, an
\* error text that can or cannot be read, and a JSON body of some shape.
Texts == {"restore plan X", "restore plan Y"}
UpstreamErrors == {429, 503}
JsonBodies ==
    {[choices |-> <<[message |-> [content |-> t]]>>] : t \in Texts}
      \cup {[choices |-> <<[message |-> [role |-> "assistant"]]>>],
            [choices |-> <<[index |-> 0]>>],
            [choices |-> <<>>],
            [error |-> "overloaded"]}
FetchResults ==
    {[rejected |-> TRUE]}
      \cup {[rejected |-> FALSE, status |-> s, readable |-> b]
              : s \in UpstreamErrors, b \in BOOLEAN}
      \cup {[rejected |-> FALSE, status |-> 200, json |-> TRUE, data |-> d]
              : d \in JsonBodies}
      \cup {[rejected |-> FALSE, status |-> 200, json |-> FALSE]}

\* ------------------------------------------------- multer (upload.single)
\* fileFilter: file.mimetype.startsWith('image/')
fileFilter(file) == file.mimetype[1] = "image"

\* The file parts are read in order.  st is multer's state after the parts
\* read so far: err (the error it aborted with, "none" while it has not),
\* nfiles (file parts counted against limits.files), stored (a file was
\* written under uploadsDir, whole or truncated) and file (req.file is set).
\* Per part: the limits.files count, then upload.single's own check of the
\* field name, then fileFilter, then diskStorage with limits.fileSize.
MulterPart(st, file) ==
    IF st.err # "none" THEN st
    ELSE IF st.nfiles >= files THEN [st EXCEPT !.err = "LIMIT_FILE_COUNT"]
    ELSE IF file.fieldname # "image" \/ st.file
      THEN [st EXCEPT !.err = "LIMIT_UNEXPECTED_FILE", !.nfiles = @ + 1]
    ELSE IF ~fileFilter(file)
      THEN [st EXCEPT !.err = "Only image files are allowed!", !.nfiles = @ + 1]
    ELSE IF file.size > fileSize
      THEN [st EXCEPT !.err = "LIMIT_FILE_SIZE", !.nfiles = @ + 1,
                      !.stored = TRUE]
    ELSE [st EXCEPT !.nfiles = @ + 1, !.stored = TRUE, !.file = TRUE]

RECURSIVE MulterParts(_, _)
MulterParts(st, body) ==
    IF body = <<>> THEN st
    ELSE MulterParts(MulterPart(st, Head(body)), Tail(body))

upload(body) ==
    MulterParts([err |-> "none", nfiles |-> 0, stored |-> FALSE,
                 file |-> FALSE], body)

\* The multipart bodies a client can send: no file part, or up to one part
\* more than limits.files admits.  multer reads no part after the one it
\* aborts on, so the bodies end with that part.
MaxParts == files + 1
Bodies ==
    {body \in UNION {[1..n -> Part] : n \in 0..MaxParts} :
        \A n \in 1..(Len(body) - 1) : upload(SubSeq(body, 1, n)).err = "none"}

\* multer.MulterError instances carry a LIMIT_* code; the Error made by
\* fileFilter is a plain Error.
IsMulterError(err) ==
    err \in {"LIMIT_FILE_SIZE", "LIMIT_FILE_COUNT", "LIMIT_UNEXPECTED_FILE"}

\* What the statements below need to know of the body a request carried:
\* how many file parts, whether none of them is in the 'image' field,
\* whether one declares a media type other than image/*, whether one is
\* larger than limits.fileSize.
Facts(body) ==
    [nparts   |-> Len(body),
     noImageField |-> \A i \in DOMAIN body : body[i].fieldname # "image",
     nonImage |-> \E i \in DOMAIN body : body[i].mimetype[1] # "image",
     large    |-> \E i \in DOMAIN body : body[i].size > fileSize]

\* ------------------------------------------------------ responses, errors
NoResponse == [status |-> 0]

\* ErrorMiddleware without its LIMIT_FILE_SIZE case.
ErrorMiddlewareAlways500(err) ==
    [status |-> 500, error |-> "Internal server error",
     message |-> <<"Something went wrong processing your request">>]

\* Error handling middleware: the response to an error passed to next().
ErrorMiddleware(err) ==
    IF IsMulterError(err) /\ err = "LIMIT_FILE_SIZE"
      THEN [status |-> 400, error |-> "File too large",
            message |-> <<"Image file must be smaller than 10MB">>]
      ELSE [status |-> 500, error |-> "Internal server error",
            message |-> <<"Something went wrong processing your request">>]

\* The outcome of an async helper: the value it returns or the message of
\* the Error it throws.
Return(v) == [threw |-> FALSE, value |-> v]
Throw(msg) == [threw |-> TRUE, message |-> msg]

\* imageToBase64: sharp decodes and re-encodes the file, or fails.
imageToBase64(decodable) ==
    IF decodable THEN Return("base64")
    ELSE Throw(<<"Failed to process image: ", "unsupported image format">>)

\* A status code as the template literal prints it.
StatusText(status) ==
    CASE status = 200 -> "200"
      [] status = 429 -> "429"
      [] status = 503 -> "503"

\* response.ok
ResponseOk(status) == status >= 200 /\ status <= 299

\* ApiError with response.status left out of the template.
ApiErrorNoStatus(status, errorData) ==
    <<"OpenRouter API error: ", errorData>>

\* The Error thrown for a non-2xx answer (line 172).
ApiError(status, errorData) ==
    <<"OpenRouter API error: ", StatusText(status), " - ", errorData>>

\* data.choices[0].message.content; a missing field read through undefined
\* is a TypeError, a missing last field is undefined.
Content(data) ==
    IF "choices" \notin DOMAIN data THEN Throw(<<"TypeError choices">>)
    ELSE IF Len(data.choices) = 0 THEN Throw(<<"TypeError choices[0]">>)
    ELSE IF "message" \notin DOMAIN data.choices[1]
      THEN Throw(<<"TypeError message">>)
    ELSE IF "content" \notin DOMAIN data.choices[1].message
      THEN Return("undefined")
    ELSE Return(data.choices[1].message.content)

\* The body of callOpenRouterAPI's try block, given how the fetch settles.
ApiTry(fr) ==
    IF fr.rejected THEN Throw(<<"fetch failed">>)
    ELSE IF ~ResponseOk(fr.status)
      THEN IF fr.readable THEN Throw(ApiError(fr.status, "errorData"))
           ELSE Throw(<<"terminated">>)
    ELSE IF ~fr.json THEN Throw(<<"Unexpected token">>)
    ELSE Content(fr.data)

\* callOpenRouterAPI with a catch block that logs and does not rethrow.
callOpenRouterAPISwallows(fr) ==
    LET t == ApiTry(fr)
    IN  IF t.threw THEN Return("undefined") ELSE t

\* callOpenRouterAPI: every error of the try block is rethrown wrapped.
callOpenRouterAPI(fr) ==
    LET t == ApiTry(fr)
    IN  IF t.threw THEN Throw(<<"AI processing failed: ">> \o t.message)
        ELSE t

\* processImageWithAI returning a text of its own in place of the analysis
\* it was given.
processImageWithAIOwnText(written, outputFilename, analysisResult) ==
    IF written
      THEN Return([filename |-> outputFilename,
                   analysis |-> "Image enhanced"])
      ELSE Throw(<<"Image processing failed: ", "write failed">>)

\* processImageWithAI: sharp writes the enhanced copy to processedDir under
\* a fresh name, or fails (a failed write is taken to leave no file); the
\* analysis is handed through.
processImageWithAI(written, outputFilename, analysisResult) ==
    IF written
      THEN Return([filename |-> outputFilename, analysis |-> analysisResult])
      ELSE Throw(<<"Image processing failed: ", "write failed">>)

\* ------------------------------------------------------------------- state
VARIABLES
    pc,          \* where each request is: "new", "abort", "handler",
                 \* "optimize", "fetch", "materialize", "unlink", "catch", "done"
    facts,       \* Facts of the body the request carried
    merr,        \* the error multer passed to next(), "none" if it did not
    reqFile,     \* req.file is set
    uploads,     \* the files in uploadsDir
    processed,   \* the files in processedDir
    analysis,    \* analysisResult, then processedResult.analysis, of the handler
    result,      \* processedResult.filename of the handler
    error,       \* message of the error the catch block caught
    resp,        \* the response sent, NoResponse before
    steps,       \* what the request has done so far, in order
    unlinkOk,    \* whether the last unlink of the request's file succeeded
    upstream     \* what the external API answered: NoAnswer before it did

\* The state of the other routes and middleware of the server.
VARIABLES
    served,      \* the last response of GET /api/processed/:filename and
                 \* the filename it was asked for, NotServed before
    limiter,     \* per client IP: the hits the rate limiter has counted in
                 \* the IP's current window, and what became of them
    nodeEnv,     \* process.env.NODE_ENV of the server process
    optimized,   \* an image handed to the optimizer: its pixel width w and
                 \* height h, and the size of the optimizer's output, <<>>
                 \* before the optimizer ran
    server,      \* the server process: its OPENROUTER_API_KEY, how far its
                 \* start has come, and its exit code
    relay,       \* one invocation of a serverless handler: the file of the
                 \* handler, the request, where the handler is, the calls it
                 \* made to the external API and the responses it sent
    ui,          \* the browser UI: which version of App it is, its images
                 \* and its isProcessing flag
    launcher     \* the development launcher and its two children

aux == <<served, limiter, nodeEnv, optimized, server, relay, ui, launcher>>

pipeline == <<pc, facts, merr, reqFile, uploads, processed, analysis, result,
              error, resp, steps, unlinkOk, upstream>>

vars == <<pc, facts, merr, reqFile, uploads, processed, analysis, result,
          error, resp, steps, unlinkOk, upstream, aux>>

\* Names without the uuid: the upload stored under the name the client
\* gave it, the artifact under one fixed name.
\* file.originalname: the name the client gave the file it uploads, here a
\* different one for each request.
originalname(r) == <<"photo", r>>

uniqueNameOriginal(r) == <<"upload", 0>>
outputFilenameFixed(r) == <<"processed", 0>>

\* `${uuidv4()}-${Date.now()}${ext}` and `processed-${uuidv4()}.jpg`: the
\* uuid makes the name of each generation its own.
uniqueName(r) == <<"upload", r>>
outputFilename(r) == <<"processed", r>>

NoBody == Facts(<<>>)
NoAnswer == [status |-> 0, readable |-> TRUE, content |-> "none"]

\* Line 242: the URL of the artifact in the 200 response.
processedImageUrlElsewhere(filename) == <<"/uploads/", filename>>

processedImageUrl(filename) == <<"/api/processed/", filename>>

\* The files of __dirname, the directory that holds processedDir.
ServerFiles == {"server.js"}

\* The values of req.params.filename a client can send (express hands the
\* handler the decoded segment, so '..%2Fserver.js' arrives as
\* '../server.js'): the name of each artifact, a name no artifact has, and a
\* name that climbs out of processedDir.
FilenameParams ==
    {outputFilename(r) : r \in Reqs}
        \cup {<<"processed", 0>>, <<"..", "server.js">>}

\* path.join(processedDir, filename): the join resolves a '..' segment.
filePath(filename) ==
    IF filename[1] = ".."
      THEN [dir |-> "__dirname", name |-> filename[2]]
      ELSE [dir |-> "processedDir", name |-> filename]

\* fs.access(filePath) resolves: the file is there.
access(path, store) ==
    \/ path.dir = "processedDir" /\ path.name \in store
    \/ path.dir = "__dirname" /\ path.name \in ServerFiles

\* The handler of GET /api/processed/:filename: the file at filePath with
\* the two headers, or the 404 of its catch block.
serveProcessed(filename, store) ==
    IF access(filePath(filename), store)
      THEN [status |-> 200, contentType |-> "image/jpeg",
            cacheControl |-> "public, max-age=86400",
            file |-> filePath(filename)]
      ELSE [status |-> 404, error |-> "Image not found",
            message |-> "The requested processed image does not exist"]

\* GET of a URL: the route of the artifacts, or the 404 handler.
Get(url, store) ==
    IF url[1] = "/api/processed/" THEN serveProcessed(url[2], store)
    ELSE [status |-> 404, error |-> "Not found",
          message |-> "The requested endpoint does not exist"]

\* -------------------------------------------------------------- optimizer
resizeWidth == 1024
resizeHeight == 1024
Spread == 2

\* The side lengths of the source images: small ones, large ones, and the
\* ones around the bound and around twice the bound.
Sides ==
    {1, 3, 500, 1500, 2000, 4096}
        \cup {resizeWidth + d : d \in -Spread..Spread}
        \cup {2 * resizeWidth + d : d \in -Spread..Spread}

\* a / b rounded to the nearest integer, halves up, and never below one
\* pixel.
RoundedSide(a, b) ==
    LET q == (2 * a + b) \div (2 * b)
    IN  IF q < 1 THEN 1 ELSE q

\* resize(1024, 1024, {fit: 'inside'}) without withoutEnlargement: every
\* image is scaled, up or down, until one side meets the box.
resizeEnlarging(w, h) ==
    IF w * resizeHeight >= h * resizeWidth
      THEN [width |-> resizeWidth, height |-> RoundedSide(h * resizeWidth, w)]
      ELSE [width |-> RoundedSide(w * resizeHeight, h), height |-> resizeHeight]

\* resize(1024, 1024, {fit: 'inside', withoutEnlargement: true}): both
\* sides are divided by the larger of w / 1024 and h / 1024, so that the
\* image fits inside the box with its aspect ratio kept; an image that
\* fits already keeps its size.
resize(w, h) ==
    IF w <= resizeWidth /\ h <= resizeHeight
      THEN [width |-> w, height |-> h]
    ELSE IF w * resizeHeight >= h * resizeWidth
      THEN [width |-> resizeWidth, height |-> RoundedSide(h * resizeWidth, w)]
      ELSE [width |-> RoundedSide(w * resizeHeight, h), height |-> resizeHeight]

NoImage == [w |-> 1, h |-> 1, out |-> <<>>]

\* ---------------------------------------------------- serverless handlers
\* The four handlers: api/repair-image.js and three more of the same route.
Handlers == {"repair-image.js", "part_001", "part_002", "part_003"}

\* part_001 calls the OpenAI SDK and has no branch for OPTIONS; the others
\* call OpenRouter with fetch; repair-image.js and part_003 check the shape
\* of the answer.
handlesOptions(file) == file # "part_001"
usesFetch(file) == file # "part_001"
checksShape(file) == file \in {"repair-image.js", "part_003"}

Methods == {"OPTIONS", "GET", "POST"}

\* req.body: not parsed (no body, or no content type the platform parses:
\* req.body is undefined), or an object without imageBase64, with an empty
\* one, or with image data.
RelayBodies ==
    {[parsed |-> FALSE, imageBase64 |-> "undefined"],
     [parsed |-> TRUE, imageBase64 |-> "undefined"],
     [parsed |-> TRUE, imageBase64 |-> ""],
     [parsed |-> TRUE, imageBase64 |-> "AAAA"]}

\* How the call of a handler to the external API settles: rejected, a
\* non-2xx status with an error body that is JSON or not, or 200 with a body
\* that is JSON or not.
RelayResults ==
    {[rejected |-> TRUE]}
      \cup {[rejected |-> FALSE, status |-> st, json |-> b]
              : st \in UpstreamErrors, b \in BOOLEAN}
      \cup {[rejected |-> FALSE, status |-> 200, json |-> TRUE, data |-> d]
              : d \in JsonBodies}
      \cup {[rejected |-> FALSE, status |-> 200, json |-> FALSE]}

\* response.statusText of a status.
statusText(status) ==
    CASE status = 429 -> "Too Many Requests"
      [] status = 503 -> "Service Unavailable"
      [] OTHER -> "OK"

\* !data.choices || !data.choices[0] || !data.choices[0].message
invalidFormat(data) ==
    \/ "choices" \notin DOMAIN data
    \/ data.choices = <<>>
    \/ "message" \notin DOMAIN data.choices[1]

\* The catch block of the handlers.
relayError(message) ==
    [status |-> 500, error |-> "Error processing image", message |-> message]

\* The try block of the handlers that call fetch, from the settling of the
\* fetch on: a non-2xx answer is read with response.json(), which throws on
\* a body that is not JSON, and thrown with statusText and the body; a 2xx
\* answer is read, checked for its shape (two of the handlers) and its
\* choices[0].message.content returned.
relayTry(file, fr) ==
    IF fr.rejected THEN Throw(<<"fetch failed">>)
    ELSE IF ~ResponseOk(fr.status)
      THEN IF fr.json
             THEN Throw(<<"API error: ", statusText(fr.status), ", ",
                          "errorData">>)
             ELSE Throw(<<"Unexpected token">>)
    ELSE IF ~fr.json THEN Throw(<<"Unexpected token">>)
    ELSE IF checksShape(file) /\ invalidFormat(fr.data)
      THEN Throw(<<"Invalid API response format">>)
    ELSE Content(fr.data)

\* openai.images.edit of part_001: the SDK throws on a rejected call, a
\* non-2xx status or an unreadable body, and returns the body otherwise.
sdkTry(fr) ==
    IF fr.rejected THEN Throw(<<"Connection error.">>)
    ELSE IF ~ResponseOk(fr.status)
      THEN Throw(<<StatusText(fr.status), " status code">>)
    ELSE IF ~fr.json THEN Throw(<<"Unexpected token">>)
    ELSE Return("undefined")

\* The response of a handler once its call has settled.
relayOutcome(file, fr) ==
    LET t == IF usesFetch(file) THEN relayTry(file, fr) ELSE sdkTry(fr)
    IN  IF t.threw THEN relayError(t.message)
        ELSE [status |-> 200, success |-> TRUE, data |-> t.value]

NoInvocation ==
    [file |-> "repair-image.js", method |-> "GET",
     body |-> [parsed |-> FALSE, imageBase64 |-> "undefined"],
     pc |-> "idle", calls |-> 0, sent |-> 0, res |-> NoResponse,
     settled |-> [rejected |-> TRUE]]

\* ------------------------------------------------------------- browser UI
NumImgs == 2
Imgs == 1..NumImgs

\* The two versions of App: the first posts the file to /api/repair-image,
\* the second posts base64 to /api/openrouter and has the isProcessing flag.
Versions == {"upload", "proxy"}

\* How the fetch of processImage settles: rejected; a non-2xx answer whose
\* body is JSON or not; a 2xx answer whose body is not JSON; a 2xx JSON body
\* with the result; a 2xx JSON body without one (success false or no data).
UiOutcomes ==
    {"rejected", "status json", "status text", "ok text", "ok result",
     "ok no result"}

\* The outcomes each version can meet: the server the first version posts
\* to sends processedImageUrl in every 200 body.
CanMeet(version, outcome) ==
    version = "upload" => outcome # "ok no result"

\* An image the user has not added yet, and one that handleFiles added.
NoImg == [status |-> "none", processed |-> "undefined", error |-> "undefined"]
newImage == [status |-> "uploaded", processed |-> "undefined",
             error |-> "undefined"]

\* The image after processImage's try block and catch block, the fetch
\* having settled with outcome. First version: a non-2xx status throws
\* 'API error', response.json() throws on a body that is not JSON, else
\* the image is completed with data.processedImageUrl. Second version: the
\* error body of a non-2xx status is read with response.json(), and a body
\* without success and data throws 'Invalid API response'.
settledKeepsProcessing(version, outcome, img) ==
    CASE outcome = "rejected" ->
           [img EXCEPT !.status = "error", !.error = "Failed to fetch"]
      [] outcome = "status json" ->
           [img EXCEPT !.status = "error", !.error = "API error"]
      [] outcome = "status text" ->
           [img EXCEPT !.status = "error",
               !.error = IF version = "upload" THEN "API error"
                         ELSE "Unexpected token"]
      [] outcome = "ok text" ->
           [img EXCEPT !.status = "error", !.error = "Unexpected token"]
      [] outcome = "ok result" ->
           [img EXCEPT !.status = "completed", !.processed = "result"]
      [] OTHER -> img

settled(version, outcome, img) ==
    CASE outcome = "rejected" ->
           [img EXCEPT !.status = "error", !.error = "Failed to fetch"]
      [] outcome = "status json" ->
           [img EXCEPT !.status = "error", !.error = "API error"]
      [] outcome = "status text" ->
           [img EXCEPT !.status = "error",
               !.error = IF version = "upload" THEN "API error"
                         ELSE "Unexpected token"]
      [] outcome = "ok text" ->
           [img EXCEPT !.status = "error", !.error = "Unexpected token"]
      [] outcome = "ok result" ->
           [img EXCEPT !.status = "completed", !.processed = "result"]
      [] OTHER ->
           [img EXCEPT !.status = "error", !.error = "Invalid API response"]

\* A card that shows a button calling processImage whatever the status.
showsProcessButtonAlways(status) == status # "none"

\* The card of an image shows a button that calls processImage: 'Repair
\* Photo' if the status is 'uploaded', 'Try Again' if it is 'error'.
showsProcessButton(status) == status \in {"uploaded", "error"}

\* The text of the status badge.
badge(status) ==
    IF status = "uploaded" THEN "Ready"
    ELSE IF status = "processing" THEN "Processing"
    ELSE "Completed"

NoApp == [version |-> "upload", images |-> [i \in Imgs |-> NoImg],
          isProcessing |-> FALSE]

\* ------------------------------------------------- development launcher
\* The exit codes a child can end with by itself (130 is what the shell of
\* shell: true reports after an interrupt); a child ended by the signal of
\* kill() closes with code null.
ExitCodes == {"0", "1", "130"}

\* A child process: not spawned, running, or closed with a code; killed is
\* the flag kill() sets once the signal is sent.
NoChild == [state |-> "none", code |-> "none", killed |-> FALSE]
spawn == [state |-> "running", code |-> "none", killed |-> FALSE]

\* child.kill(): the signal goes to a running child, a closed one is left
\* as it is.
kill(child) ==
    IF child.state = "running" THEN [child EXCEPT !.killed = TRUE]
    ELSE child

\* The codes a running child can close with: its own, or null once the
\* signal of kill() was sent.
CloseCodes(child) ==
    IF child.killed THEN ExitCodes \cup {"null"} ELSE ExitCodes

closed(child, code) == [child EXCEPT !.state = "closed", !.code = code]

\* The launcher before it is run.
NoLauncher == [phase |-> "none", backend |-> NoChild, frontend |-> NoChild,
               log |-> <<>>]

\* ---------------------------------------------------------------- startup
\* The values of process.env.OPENROUTER_API_KEY after dotenv.config(): not
\* set, set to the empty string, or set to a key.
Keys == {"unset", "", "sk-or-v1-0123"}

\* A start that does not check the key.
keyMissingNever(key) == FALSE

\* !OPENROUTER_API_KEY: undefined and the empty string are falsy.
keyMissing(key) == key \in {"unset", ""}

\* The Authorization header of the external call.
Authorization(key) == <<"Bearer ", IF key = "unset" THEN "undefined" ELSE key>>

\* A server that has started with a key and listens.
Listening == [key |-> "sk-or-v1-0123", state |-> "listening", code |-> 0]

\* --------------------------------------------------------------- NODE_ENV
\* The values of process.env.NODE_ENV: not set, or set to one of these.
Envs == {"unset", "development", "production", "test"}

\* process.env.NODE_ENV || 'development': the environment the server
\* reports at /api/health and logs when it starts to listen.
environment(env) == IF env = "unset" THEN "development" ELSE env

\* error.stack: the message followed by the frames.
stack(message) == message \o <<"    at ">>

\* Line 269: the stack if NODE_ENV is 'development', else undefined (<<>>).
details(env, message) ==
    IF env = "development" THEN stack(message) ELSE <<>>

\* ------------------------------------------------------------ rate limiter
max == 10
Extra == 2
MaxWindows == 2

IPs == {"ip1", "ip2"}

\* What a request under /api/ is, once it has passed the limiter: a repair
\* request that reaches the external call, or anything else (a repair
\* request that ends before the call, a retrieval, health, info, a 404).
Kinds == {"call", "other"}

\* A limiter that counts and never rejects.
exceededNever(totalHits) == FALSE

\* express-rate-limit: the request is rejected when the hits counted for
\* its key in the current window, itself included, exceed max.
exceeded(totalHits) == totalHits > max

NoHits == [hits |-> 0, passed |-> 0, rejected |-> 0, calls |-> 0, window |-> 0]

NotServed == [filename |-> <<>>, stored |-> FALSE, res |-> NoResponse]

\* No request has arrived yet.
PipelineIdle ==
    /\ pc = [r \in Reqs |-> "new"]
    /\ facts = [r \in Reqs |-> NoBody]
    /\ merr = [r \in Reqs |-> "none"]
    /\ reqFile = [r \in Reqs |-> FALSE]
    /\ uploads = {}
    /\ processed = {}
    /\ analysis = [r \in Reqs |-> "none"]
    /\ result = [r \in Reqs |-> "none"]
    /\ error = [r \in Reqs |-> <<>>]
    /\ resp = [r \in Reqs |-> NoResponse]
    /\ steps = [r \in Reqs |-> <<>>]
    /\ unlinkOk = [r \in Reqs |-> TRUE]
    /\ upstream = [r \in Reqs |-> NoAnswer]

Init ==
    /\ PipelineIdle
    /\ served = NotServed
    /\ limiter = [ip \in IPs |-> NoHits]
    /\ nodeEnv = "unset"
    /\ optimized = NoImage
    /\ server = Listening
    /\ relay = NoInvocation
    /\ ui = NoApp
    /\ launcher = NoLauncher

\* Readers of the log of a request: whether, and how often, it did a step.
Did(r, what) == \E i \in DOMAIN steps[r] : steps[r][i] = what
Count(r, what) == Cardinality({i \in DOMAIN steps[r] : steps[r][i] = what})

\* fs.unlink of the request's transient file: it removes the file, or fails
\* and leaves it.
Unlink(r, ok) ==
    /\ uploads' = IF ok THEN uploads \ {uniqueName(r)} ELSE uploads
    /\ unlinkOk' = [unlinkOk EXCEPT ![r] = ok]

\* ----------------------------------------------------------------- actions
\* A client posts a body; multer reads its parts and stores what it accepts.
Receive(r) ==
    /\ UNCHANGED aux
    /\ pc[r] = "new"
    /\ \E body \in Bodies :
         LET m == upload(body)
         IN  /\ facts' = [facts EXCEPT ![r] = Facts(body)]
             /\ merr' = [merr EXCEPT ![r] = m.err]
             /\ reqFile' = [reqFile EXCEPT ![r] = m.file /\ m.err = "none"]
             /\ uploads' = IF m.stored THEN uploads \cup {uniqueName(r)}
                           ELSE uploads
             /\ steps' = [steps EXCEPT ![r] =
                            IF m.stored THEN <<"stored">> ELSE <<>>]
             /\ pc' = [pc EXCEPT ![r] =
                         IF m.err = "none" THEN "handler" ELSE "abort"]
    /\ UNCHANGED <<processed, analysis, result, error, resp, unlinkOk,
                   upstream>>

\* multer aborts: it removes the files it stored (errors of the removal are
\* only collected) and passes its error to next(), which the error handling
\* middleware answers.
MulterAbort(r) ==
    /\ UNCHANGED aux
    /\ pc[r] = "abort"
    /\ IF uniqueName(r) \in uploads
         THEN /\ \E ok \in BOOLEAN : Unlink(r, ok)
              /\ steps' = [steps EXCEPT ![r] = @ \o <<"remove", "respond">>]
         ELSE /\ UNCHANGED <<uploads, unlinkOk>>
              /\ steps' = [steps EXCEPT ![r] = Append(@, "respond")]
    /\ resp' = [resp EXCEPT ![r] = ErrorMiddleware(merr[r])]
    /\ pc' = [pc EXCEPT ![r] = "done"]
    /\ UNCHANGED <<facts, merr, reqFile, processed, analysis, result, error,
                   upstream>>

\* The handler starts: 400 without req.file, else imageToBase64 is awaited.
HandlerStart(r) ==
    /\ UNCHANGED aux
    /\ pc[r] = "handler"
    /\ IF ~reqFile[r]
         THEN /\ resp' = [resp EXCEPT ![r] =
                    [status |-> 400, error |-> "No image file provided",
                     message |-> <<"Please upload an image file">>]]
              /\ steps' = [steps EXCEPT ![r] = Append(@, "respond")]
              /\ pc' = [pc EXCEPT ![r] = "done"]
         ELSE /\ pc' = [pc EXCEPT ![r] = "optimize"]
              /\ UNCHANGED <<resp, steps>>
    /\ UNCHANGED <<facts, merr, reqFile, uploads, processed, analysis, result,
                   error, unlinkOk, upstream>>

\* imageToBase64 settles; on success the fetch of callOpenRouterAPI is issued.
Optimize(r) ==
    /\ UNCHANGED aux
    /\ pc[r] = "optimize"
    /\ \E decodable \in BOOLEAN :
         LET o == imageToBase64(decodable)
         IN  IF o.threw
               THEN /\ error' = [error EXCEPT ![r] = o.message]
                    /\ pc' = [pc EXCEPT ![r] = "catch"]
                    /\ UNCHANGED steps
               ELSE /\ steps' = [steps EXCEPT ![r] = @ \o <<"optimize", "call">>]
                    /\ pc' = [pc EXCEPT ![r] = "fetch"]
                    /\ UNCHANGED error
    /\ UNCHANGED <<facts, merr, reqFile, uploads, processed, analysis, result,
                   resp, unlinkOk, upstream>>

\* How a fetch settled, as the log of a request records it: a 2xx answer
\* whose JSON body holds choices[0].message, or anything else.
Settled(fr) ==
    IF /\ ~fr.rejected
       /\ fr.status \in 200..299
       /\ fr.json
       /\ "choices" \in DOMAIN fr.data
       /\ fr.data.choices # <<>>
       /\ "message" \in DOMAIN fr.data.choices[1]
      THEN "answer" ELSE "failure"

\* The text the external API sent as choices[0].message.content: "none" if
\* its answer holds no such message, "undefined" if the message holds no
\* content.
Sent(fr) ==
    IF Settled(fr) = "failure" THEN "none"
    ELSE IF "content" \in DOMAIN fr.data.choices[1].message
      THEN fr.data.choices[1].message.content
    ELSE "undefined"

\* The status the external API answered with (0: the fetch was rejected),
\* whether the text of its error body could be read, and the text it sent.
Answer(fr) ==
    IF fr.rejected THEN [status |-> 0, readable |-> TRUE, content |-> "none"]
    ELSE [status |-> fr.status,
          readable |-> IF ResponseOk(fr.status) THEN TRUE ELSE fr.readable,
          content |-> Sent(fr)]

\* Fetch with one retry: a failed call is issued again, once.
FetchRetry(r) ==
    /\ UNCHANGED aux
    /\ pc[r] = "fetch"
    /\ \E fr \in FetchResults :
         LET a == callOpenRouterAPI(fr)
         IN  /\ IF a.threw /\ Count(r, "call") < 2
                  THEN /\ steps' = [steps EXCEPT ![r] =
                                      @ \o <<Settled(fr), "call">>]
                       /\ UNCHANGED <<pc, error, analysis>>
                  ELSE /\ steps' = [steps EXCEPT ![r] = Append(@, Settled(fr))]
                       /\ IF a.threw
                            THEN /\ error' = [error EXCEPT ![r] = a.message]
                                 /\ pc' = [pc EXCEPT ![r] = "catch"]
                                 /\ UNCHANGED analysis
                            ELSE /\ analysis' = [analysis EXCEPT ![r] = a.value]
                                 /\ pc' = [pc EXCEPT ![r] = "materialize"]
                                 /\ UNCHANGED error
             /\ upstream' = [upstream EXCEPT ![r] = Answer(fr)]
    /\ UNCHANGED <<facts, merr, reqFile, uploads, processed, result, resp,
                   unlinkOk>>

\* The fetch settles and callOpenRouterAPI returns the text or throws; with
\* the text, processImageWithAI is awaited next.
Fetch(r) ==
    /\ UNCHANGED aux
    /\ pc[r] = "fetch"
    /\ \E fr \in FetchResults :
         LET a == callOpenRouterAPI(fr)
         IN  /\ IF a.threw
                  THEN /\ error' = [error EXCEPT ![r] = a.message]
                       /\ pc' = [pc EXCEPT ![r] = "catch"]
                       /\ UNCHANGED analysis
                  ELSE /\ analysis' = [analysis EXCEPT ![r] = a.value]
                       /\ pc' = [pc EXCEPT ![r] = "materialize"]
                       /\ UNCHANGED error
             /\ steps' = [steps EXCEPT ![r] = Append(@, Settled(fr))]
             /\ upstream' = [upstream EXCEPT ![r] = Answer(fr)]
    /\ UNCHANGED <<facts, merr, reqFile, uploads, processed, result, resp,
                   unlinkOk>>

\* processImageWithAI settles; with its result, whose analysis is the one
\* the response will carry, fs.unlink of the upload is awaited next.
Materialize(r) ==
    /\ UNCHANGED aux
    /\ pc[r] = "materialize"
    /\ \E written \in BOOLEAN :
         LET p == processImageWithAI(written, outputFilename(r), analysis[r])
         IN  IF p.threw
               THEN /\ error' = [error EXCEPT ![r] = p.message]
                    /\ pc' = [pc EXCEPT ![r] = "catch"]
                    /\ UNCHANGED <<processed, result, analysis, steps>>
               ELSE /\ processed' = processed \cup {p.value.filename}
                    /\ result' = [result EXCEPT ![r] = p.value.filename]
                    /\ analysis' = [analysis EXCEPT
                                      ![r] = p.value.analysis]
                    /\ steps' = [steps EXCEPT ![r] = Append(@, "artifact")]
                    /\ pc' = [pc EXCEPT ![r] = "unlink"]
                    /\ UNCHANGED error
    /\ UNCHANGED <<facts, merr, reqFile, uploads, resp, unlinkOk, upstream>>

\* A handler that sends the 200 response before it unlinks the upload: an
\* unlink that throws then reaches the catch block after the response.
CleanupRespondsFirst(r) ==
    /\ UNCHANGED aux
    /\ pc[r] = "unlink"
    /\ resp' = [resp EXCEPT ![r] =
                  [status |-> 200, success |-> TRUE,
                   processedImageUrl |-> processedImageUrl(result[r]),
                   analysis |-> analysis[r],
                   originalFilename |-> originalname(r),
                   processedFilename |-> result[r]]]
    /\ \E ok \in BOOLEAN :
         /\ Unlink(r, ok)
         /\ steps' = [steps EXCEPT ![r] = @ \o <<"respond", "unlink">>]
         /\ IF ok
              THEN pc' = [pc EXCEPT ![r] = "done"] /\ UNCHANGED error
              ELSE /\ error' = [error EXCEPT ![r] = <<"EPERM: unlink">>]
                   /\ pc' = [pc EXCEPT ![r] = "catch"]
    /\ UNCHANGED <<facts, merr, reqFile, processed, analysis, result,
                   upstream>>

\* Line 239: the upload is unlinked and the 200 response sent, or the unlink
\* throws into the catch block.
Cleanup(r) ==
    /\ UNCHANGED aux
    /\ pc[r] = "unlink"
    /\ \E ok \in BOOLEAN :
         /\ Unlink(r, ok)
         /\ IF ok
              THEN /\ resp' = [resp EXCEPT ![r] =
                         [status |-> 200, success |-> TRUE,
                          processedImageUrl |-> processedImageUrl(result[r]),
                          analysis |-> analysis[r],
                          originalFilename |-> originalname(r),
                          processedFilename |-> result[r]]]
                   /\ steps' = [steps EXCEPT ![r] = @ \o <<"unlink", "respond">>]
                   /\ pc' = [pc EXCEPT ![r] = "done"]
                   /\ UNCHANGED error
              ELSE /\ error' = [error EXCEPT ![r] = <<"EPERM: unlink">>]
                   /\ steps' = [steps EXCEPT ![r] = Append(@, "unlink")]
                   /\ pc' = [pc EXCEPT ![r] = "catch"]
                   /\ UNCHANGED resp
    /\ UNCHANGED <<facts, merr, reqFile, processed, analysis, result,
                   upstream>>

\* A catch block that does not clean up.
NoCleanupOnError(r) == FALSE

\* Line 258: the catch block unlinks the upload if req.file is set.
CleanupOnError(r) == reqFile[r]

\* The catch block: req.file is set, so the upload is unlinked (an error of
\* that unlink is logged only), then the 500 response is sent.
Catch(r) ==
    /\ UNCHANGED aux
    /\ pc[r] = "catch"
    /\ IF CleanupOnError(r)
         THEN /\ \E ok \in BOOLEAN : Unlink(r, ok)
              /\ steps' = [steps EXCEPT ![r] = @ \o <<"unlink", "respond">>]
         ELSE /\ UNCHANGED <<uploads, unlinkOk>>
              /\ steps' = [steps EXCEPT ![r] = Append(@, "respond")]
    /\ resp' = [resp EXCEPT ![r] =
                  [status |-> 500, error |-> "Image processing failed",
                   message |-> error[r],
                   details |-> details(nodeEnv, error[r])]]
    /\ pc' = [pc EXCEPT ![r] = "done"]
    /\ UNCHANGED <<facts, merr, reqFile, processed, analysis, result, error,
                   upstream>>

Next ==
    \E r \in Reqs :
        \/ Receive(r)
        \/ MulterAbort(r)
        \/ HandlerStart(r)
        \/ Optimize(r)
        \/ Fetch(r)
        \/ Materialize(r)
        \/ Cleanup(r)
        \/ Catch(r)

Spec == Init /\ [][Next]_vars

\* The steps the server takes on its own: every await of the handler on local
\* work (sharp, fs) and every synchronous continuation is taken once it is
\* enabled. The settling of fetch is not among them: callOpenRouterAPI passes
\* neither a signal nor a timeout to fetch, so nothing in the handler makes
\* the await at its call end.
ServerSteps(r) ==
    \/ MulterAbort(r)
    \/ HandlerStart(r)
    \/ Optimize(r)
    \/ Materialize(r)
    \/ Cleanup(r)
    \/ Catch(r)

\* GET /api/processed/:filename: the handler reads processedDir and writes
\* nothing; `stored` keeps whether processedDir held a file of the name asked
\* for when the request was served.
Retrieve(filename) ==
    /\ served' = [filename |-> filename,
                  stored |-> filename \in processed,
                  res |-> serveProcessed(filename, processed)]
    /\ UNCHANGED <<pipeline, limiter, nodeEnv, optimized, server, relay, ui, launcher>>

\* Retrievals arrive at any time between the steps of the repair requests.
RetrievalNext ==
    \/ Next
    \/ \E filename \in FilenameParams : Retrieve(filename)

RetrievalSpec == Init /\ [][RetrievalNext]_vars

\* app.use('/api/', limiter): a request under /api/ from ip is counted; if
\* the count exceeds max the limiter answers 429 and no route runs (no
\* upload stored, no call made); otherwise the route runs, and a repair
\* request that gets that far makes its one call to the external API.
Limited(ip, kind) ==
    /\ limiter[ip].hits < max + Extra
    /\ LET totalHits == limiter[ip].hits + 1
       IN  limiter' = [limiter EXCEPT ![ip] =
              IF exceeded(totalHits)
                THEN [@ EXCEPT !.hits = totalHits, !.rejected = @ + 1]
                ELSE [@ EXCEPT !.hits = totalHits, !.passed = @ + 1,
                               !.calls = IF kind = "call" THEN @ + 1 ELSE @]]
    /\ UNCHANGED <<pipeline, served, nodeEnv, optimized, server, relay, ui, launcher>>

\* windowMs after the window of ip began its counter is reset.
WindowEnds(ip) ==
    /\ limiter[ip].window < MaxWindows
    /\ limiter' = [limiter EXCEPT ![ip] =
                      [NoHits EXCEPT !.window = limiter[ip].window + 1]]
    /\ UNCHANGED <<pipeline, served, nodeEnv, optimized, server, relay, ui, launcher>>

LimiterNext ==
    \E ip \in IPs :
        \/ \E kind \in Kinds : Limited(ip, kind)
        \/ WindowEnds(ip)

LimiterSpec == Init /\ [][LimiterNext]_vars

\* The server started with any value of NODE_ENV, or with none.
EnvInit ==
    /\ PipelineIdle
    /\ served = NotServed
    /\ limiter = [ip \in IPs |-> NoHits]
    /\ nodeEnv \in Envs
    /\ optimized = NoImage
    /\ server = Listening
    /\ relay = NoInvocation
    /\ ui = NoApp
    /\ launcher = NoLauncher

EnvSpec == EnvInit /\ [][Next]_vars

\* A decodable image of any of the sizes is handed to the optimizer.
OptimizerInit ==
    /\ PipelineIdle
    /\ served = NotServed
    /\ limiter = [ip \in IPs |-> NoHits]
    /\ nodeEnv = "unset"
    /\ optimized \in [w : Sides, h : Sides, out : {<<>>}]
    /\ server = Listening
    /\ relay = NoInvocation
    /\ ui = NoApp
    /\ launcher = NoLauncher

\* imageToBase64 on that image: sharp resizes and encodes it.
OptimizeImage ==
    /\ optimized.out = <<>>
    /\ optimized' = [optimized EXCEPT
                        !.out = <<resize(optimized.w, optimized.h)>>]
    /\ UNCHANGED <<pipeline, served, limiter, nodeEnv, server, relay, ui, launcher>>

OptimizerSpec == OptimizerInit /\ [][OptimizeImage]_vars

\* The process has been started with any value of OPENROUTER_API_KEY, or
\* with none; the module has not been evaluated yet.
StartupInit ==
    /\ PipelineIdle
    /\ served = NotServed
    /\ limiter = [ip \in IPs |-> NoHits]
    /\ nodeEnv = "unset"
    /\ optimized = NoImage
    /\ server \in [key : Keys, state : {"starting"}, code : {0}]
    /\ relay = NoInvocation
    /\ ui = NoApp
    /\ launcher = NoLauncher

\* Lines 99-105: without a key the process exits with code 1.
CheckKey ==
    /\ server.state = "starting"
    /\ server' = IF keyMissing(server.key)
                   THEN [server EXCEPT !.state = "exited", !.code = 1]
                   ELSE [server EXCEPT !.state = "checked"]
    /\ UNCHANGED <<pipeline, served, limiter, nodeEnv, optimized, relay, ui, launcher>>

\* Lines 354-360, the last statement of the module: the server listens.
Listen ==
    /\ server.state = "checked"
    /\ server' = [server EXCEPT !.state = "listening"]
    /\ UNCHANGED <<pipeline, served, limiter, nodeEnv, optimized, relay, ui, launcher>>

\* Requests are accepted, and handled, by a listening server only.
Serve ==
    /\ server.state = "listening"
    /\ Next

StartupNext ==
    \/ CheckKey
    \/ Listen
    \/ Serve

StartupSpec == StartupInit /\ [][StartupNext]_vars

\* A request of any method and body arrives at any of the handlers.
RelayInit ==
    /\ PipelineIdle
    /\ served = NotServed
    /\ limiter = [ip \in IPs |-> NoHits]
    /\ nodeEnv = "unset"
    /\ optimized = NoImage
    /\ server = Listening
    /\ relay \in [file : Handlers, method : Methods, body : RelayBodies,
                   pc : {"start"}, calls : {0}, sent : {0},
                   res : {NoResponse}, settled : {[rejected |-> TRUE]}]
    /\ ui = NoApp
    /\ launcher = NoLauncher

\* The handler up to its first await: the method checks, the destructuring
\* of req.body inside the try block (a TypeError if req.body is undefined),
\* the check of imageBase64, and the call of the external API.
RelayStart ==
    /\ relay.pc = "start"
    /\ relay' =
         IF handlesOptions(relay.file) /\ relay.method = "OPTIONS"
           THEN [relay EXCEPT !.pc = "done", !.sent = @ + 1,
                              !.res = [status |-> 200]]
         ELSE IF relay.method # "POST"
           THEN [relay EXCEPT !.pc = "done", !.sent = @ + 1,
                    !.res = [status |-> 405, error |-> "Method not allowed"]]
         ELSE IF ~relay.body.parsed
           THEN [relay EXCEPT !.pc = "done", !.sent = @ + 1,
                    !.res = relayError(<<"Cannot destructure property">>)]
         ELSE IF relay.body.imageBase64 \in {"undefined", ""}
           THEN [relay EXCEPT !.pc = "done", !.sent = @ + 1,
                    !.res = [status |-> 400,
                             error |-> "Image data is required"]]
         ELSE [relay EXCEPT !.pc = "fetch", !.calls = @ + 1]
    /\ UNCHANGED <<pipeline, served, limiter, nodeEnv, optimized, server, ui, launcher>>

\* The call settles and the handler answers.
RelaySettle ==
    /\ relay.pc = "fetch"
    /\ \E fr \in RelayResults :
         relay' = [relay EXCEPT !.pc = "done", !.sent = @ + 1,
                                !.settled = fr,
                                !.res = relayOutcome(relay.file, fr)]
    /\ UNCHANGED <<pipeline, served, limiter, nodeEnv, optimized, server, ui, launcher>>

RelayNext ==
    \/ RelayStart
    \/ RelaySettle

RelaySpec == RelayInit /\ [][RelayNext]_vars

\* App is mounted, in either version: no images, isProcessing false.
UiInit ==
    /\ PipelineIdle
    /\ served = NotServed
    /\ limiter = [ip \in IPs |-> NoHits]
    /\ nodeEnv = "unset"
    /\ optimized = NoImage
    /\ server = Listening
    /\ relay = NoInvocation
    /\ ui \in [version : Versions, images : {[i \in Imgs |-> NoImg]},
                isProcessing : {FALSE}]
    /\ launcher = NoLauncher

\* handleFiles: reader.onload appends the image with status 'uploaded'.
handleFiles(i) ==
    /\ ui.images[i].status = "none"
    /\ ui' = [ui EXCEPT !.images[i] = newImage]
    /\ UNCHANGED <<pipeline, served, limiter, nodeEnv, optimized, server,
                   relay, launcher>>

\* A click on the button of image i calls processImage up to its await:
\* the status of the image becomes 'processing' and, in the second version,
\* isProcessing true. The image is in the images of the render that showed
\* the button, so the early return is not taken.
processImage(i) ==
    /\ showsProcessButton(ui.images[i].status)
    /\ ui' = [ui EXCEPT !.images[i].status = "processing",
                        !.isProcessing = (ui.version = "proxy")]
    /\ UNCHANGED <<pipeline, served, limiter, nodeEnv, optimized, server,
                   relay, launcher>>

\* The fetch of processImage for image i settles: the rest of the try
\* block, the catch block and, in the second version, the finally block,
\* which sets isProcessing to false.
fetchSettles(i) ==
    /\ ui.images[i].status = "processing"
    /\ \E outcome \in UiOutcomes :
         /\ CanMeet(ui.version, outcome)
         /\ ui' = [ui EXCEPT
                     !.images[i] = settled(ui.version, outcome, @),
                     !.isProcessing = FALSE]
    /\ UNCHANGED <<pipeline, served, limiter, nodeEnv, optimized, server,
                   relay, launcher>>

UiNext ==
    \E i \in Imgs :
        \/ handleFiles(i)
        \/ processImage(i)
        \/ fetchSettles(i)

UiSpec == UiInit /\ [][UiNext]_vars

\* The launcher has run its top level: the backend is spawned, the timer of
\* 2000 ms is set and the first 'close' listener of the backend is on.
LauncherInit ==
    /\ PipelineIdle
    /\ served = NotServed
    /\ limiter = [ip \in IPs |-> NoHits]
    /\ nodeEnv = "unset"
    /\ optimized = NoImage
    /\ server = Listening
    /\ relay = NoInvocation
    /\ ui = NoApp
    /\ launcher = [phase |-> "waiting", backend |-> spawn,
                   frontend |-> NoChild,
                   log |-> <<"Starting backend server">>]

\* The callback of setTimeout: the frontend is spawned and the SIGINT
\* handler and the two 'close' listeners of the callback are registered.
Timeout ==
    /\ launcher.phase = "waiting"
    /\ launcher' = [launcher EXCEPT
                      !.phase = "started",
                      !.frontend = spawn,
                      !.log = Append(@, "Starting frontend")]
    /\ UNCHANGED <<pipeline, served, limiter, nodeEnv, optimized, server,
                   relay, ui>>

\* The backend closes. The listener of the top level logs the code; the
\* listener of the callback, if it is registered by then, logs it again
\* and kills the frontend. Once the launcher has exited nothing listens.
BackendCloses ==
    /\ launcher.backend.state = "running"
    /\ \E code \in CloseCodes(launcher.backend) :
         launcher' =
           IF launcher.phase = "waiting"
           THEN [launcher EXCEPT
                   !.backend = closed(@, code),
                   !.log = Append(@, <<"Backend exited", code>>)]
           ELSE IF launcher.phase = "started"
           THEN [launcher EXCEPT
                   !.backend = closed(@, code),
                   !.frontend = kill(@),
                   !.log = @ \o << <<"Backend exited", code>>,
                                   <<"Backend exited", code>> >>]
           ELSE [launcher EXCEPT !.backend = closed(@, code)]
    /\ UNCHANGED <<pipeline, served, limiter, nodeEnv, optimized, server,
                   relay, ui>>

\* The frontend closes: its listener logs the code and kills the backend.
FrontendCloses ==
    /\ launcher.frontend.state = "running"
    /\ \E code \in CloseCodes(launcher.frontend) :
         launcher' =
           IF launcher.phase = "started"
           THEN [launcher EXCEPT
                   !.frontend = closed(@, code),
                   !.backend = kill(@),
                   !.log = Append(@, <<"Frontend exited", code>>)]
           ELSE [launcher EXCEPT !.frontend = closed(@, code)]
    /\ UNCHANGED <<pipeline, served, limiter, nodeEnv, optimized, server,
                   relay, ui>>

\* SIGINT reaches the launcher. With the handler of the callback
\* registered, both children are killed and the launcher exits with 0;
\* before that the signal ends the launcher and no code of it runs.
Sigint ==
    /\ launcher.phase \in {"waiting", "started"}
    /\ launcher' =
         IF launcher.phase = "started"
         THEN [launcher EXCEPT
                 !.phase = "exited",
                 !.backend = kill(@),
                 !.frontend = kill(@),
                 !.log = Append(@, "Shutting down")]
         ELSE [launcher EXCEPT !.phase = "exited"]
    /\ UNCHANGED <<pipeline, served, limiter, nodeEnv, optimized, server,
                   relay, ui>>

LauncherNext ==
    \/ Timeout
    \/ BackendCloses
    \/ FrontendCloses
    \/ Sigint

LauncherSpec == LauncherInit /\ [][LauncherNext]_vars

\* Every fetch settles: the browser ends a request with an answer or an
\* error.
UiLiveSpec == UiSpec /\ \A i \in Imgs : WF_vars(fetchSettles(i))

LiveSpec == Spec /\ \A r \in Reqs : WF_vars(ServerSteps(r))

\* =================================================================== claims
Responded(r) == resp[r].status # 0
InFlight(r) == pc[r] \notin {"new", "done"}
HandlerSteps == {"optimize", "call", "answer", "failure", "artifact"}
RanPipeline(r) == \E i \in DOMAIN steps[r] : steps[r][i] \in HandlerSteps
InMessage(r, text) == \E i \in DOMAIN resp[r].message : resp[r].message[i] = text
Non2xx(r) == upstream[r].status # 0 /\ ~ResponseOk(upstream[r].status)

\* C1: for every request of the repair endpoint that reaches the handler
\* with req.file set, once the response is sent the unlink of the transient
\* upload has been attempted exactly once, whatever the path (success,
\* optimizer, external call, materializer or unlink failure).
C1_UnlinkAttemptedExactlyOnce ==
    \A r \in Reqs :
        (pc[r] = "done" /\ reqFile[r]) => Count(r, "unlink") = 1

\* C2 as stated (its first sentence): once a request whose upload was
\* accepted and stored has sent its 200 or 500 response, the file of that
\* upload is absent from uploadsDir.
C2_Original ==
    \A r \in Reqs :
        (reqFile[r] /\ resp[r].status \in {200, 500})
           => uniqueName(r) \notin uploads

\* C2 as amended: once a request whose upload was stored has sent its
\* response, its file is absent from uploadsDir unless the last unlink of
\* it failed, and it is always absent after a 200; every file in uploadsDir
\* belongs to a request still in flight or to one whose last unlink failed.
C2_UploadAbsentUnlessUnlinkFailed ==
    /\ \A r \in Reqs :
          (Did(r, "stored") /\ Responded(r))
             => /\ uniqueName(r) \notin uploads \/ ~unlinkOk[r]
                /\ resp[r].status = 200 => uniqueName(r) \notin uploads
    /\ \A f \in uploads :
          \E r \in Reqs :
             f = uniqueName(r) /\ (InFlight(r) \/ (pc[r] = "done" /\ ~unlinkOk[r]))

\* C2 witness: a request answered 500 whose stored upload is gone, while the
\* upload of another request, still in flight, is in uploadsDir.
C2_Witness ==
    \E r, q \in Reqs :
        /\ resp[r].status = 500 /\ Did(r, "stored") /\ reqFile[r]
        /\ uniqueName(r) \notin uploads
        /\ InFlight(q) /\ uniqueName(q) \in uploads

C4_NonImageRejectedWith400 ==
    \A r \in Reqs :
        (pc[r] = "done" /\ facts[r].nparts = 1 /\ facts[r].nonImage)
           => /\ resp[r].status \in 400..499
              /\ uniqueName(r) \notin uploads
              /\ ~Did(r, "call")
              /\ outputFilename(r) \notin processed

\* C5 as stated: every upload larger than 10 MB is rejected with 400 'File
\* too large' before the handler runs: optimizer, external call and
\* materializer are never executed for it.
C5_Original ==
    \A r \in Reqs :
        (facts[r].nparts = 1 /\ facts[r].large)
           => /\ ~RanPipeline(r)
              /\ pc[r] = "done"
                    => resp[r].status = 400 /\ resp[r].error = "File too large"

\* C5 as amended: every upload larger than 10 MB that is otherwise valid (one
\* file, in the 'image' field, of a declared image/* type) is rejected with
\* 400 'File too large'; and for every upload that holds a file larger than
\* 10 MB, valid otherwise or not, the handler never runs: no optimizer, no
\* external call, no materializer, and the response is an error.
C5_TooLargeRejectedBeforeHandler ==
    \A r \in Reqs :
        facts[r].large
           => /\ ~RanPipeline(r)
              /\ pc[r] = "done" => resp[r].status \in {400, 500}
              /\ (pc[r] = "done" /\ facts[r].nparts = 1
                    /\ ~facts[r].nonImage /\ ~facts[r].noImageField)
                    => resp[r].status = 400 /\ resp[r].error = "File too large"

\* C5 witness: an image upload larger than 10 MB answered 400 'File too
\* large', the truncated file removed again.
C5_Witness ==
    \E r \in Reqs :
        /\ pc[r] = "done" /\ facts[r].large /\ facts[r].nparts = 1
        /\ ~facts[r].nonImage
        /\ resp[r].status = 400 /\ resp[r].error = "File too large"
        /\ Did(r, "stored") /\ uniqueName(r) \notin uploads

\* C6: a request that carries no file in the 'image' field ends with a 400
\* response; optimizer, external call and materializer are not executed and
\* neither store is changed (nothing stored, nothing deleted).
C6_NoImageFieldGives400 ==
    \A r \in Reqs :
        (pc[r] = "done" /\ facts[r].noImageField)
           => /\ resp[r].status = 400
              /\ ~RanPipeline(r)
              /\ steps[r] = <<"respond">>
              /\ uniqueName(r) \notin uploads
              /\ outputFilename(r) \notin processed

\* C7: a request that carries more than one file (here: each of them an
\* image of an admitted size) is rejected with a 400-class response and no
\* external call is made for it.
C7_ManyFilesRejectedWith400 ==
    \A r \in Reqs :
        (pc[r] = "done" /\ facts[r].nparts > 1
            /\ ~facts[r].nonImage /\ ~facts[r].large)
           => resp[r].status \in 400..499 /\ ~Did(r, "call")

\* The steps C8 orders, and the place of each in the order.
Rank(step) ==
    CASE step = "stored" -> 1
      [] step = "optimize" -> 2
      [] step = "call" -> 3
      [] step \in {"answer", "failure"} -> 4
      [] step = "artifact" -> 5
      [] step = "respond" -> 6
      [] OTHER -> 0

Ranked(step) == Rank(step) > 0

\* C8: within one request the steps occur in the order upload stored,
\* optimize, external call, materialize, respond, none of them twice; the
\* call is issued only after a completed optimization, an artifact is written
\* only after the call returned a well-formed 2xx answer, and a 200 response
\* ends a run in which no step was skipped.
C8_StepsInOrder ==
    \A r \in Reqs :
        /\ LET ranked == SelectSeq(steps[r], Ranked)
           IN  \A i \in 1..(Len(ranked) - 1) :
                  Rank(ranked[i]) < Rank(ranked[i + 1])
        /\ Did(r, "optimize") => Did(r, "stored")
        /\ Did(r, "call") => Did(r, "optimize")
        /\ Did(r, "artifact") => Did(r, "call") /\ Did(r, "answer")
        /\ outputFilename(r) \in processed => Did(r, "artifact")
        /\ resp[r].status = 200
              => steps[r] = <<"stored", "optimize", "call", "answer",
                              "artifact", "unlink", "respond">>

\* C8 witness: a request answered 200.
C8_Witness ==
    \E r \in Reqs :
        /\ pc[r] = "done" /\ resp[r].status = 200
        /\ outputFilename(r) \in processed

\* C9: each request issues at most one call to the external API, whatever
\* the call's outcome, and none when the upload is absent or rejected or the
\* optimization failed.
C9_AtMostOneExternalCall ==
    \A r \in Reqs :
        /\ Count(r, "call") <= 1
        /\ Count(r, "answer") + Count(r, "failure") <= Count(r, "call")
        /\ (~reqFile[r] \/ ~Did(r, "optimize")) => Count(r, "call") = 0

\* C9 witness: a request answered after its one call failed (a non-2xx
\* status, a malformed body or a network error).
C9_Witness ==
    \E r \in Reqs :
        /\ pc[r] = "done" /\ Did(r, "failure")
        /\ Count(r, "call") = 1 /\ resp[r].status = 500

\* C10: a request that ends with an error response (400 or 500) has added no
\* artifact to processedDir.
C10_ErrorAddsNoArtifact ==
    \A r \in Reqs :
        (pc[r] = "done" /\ resp[r].status \in {400, 500})
           => outputFilename(r) \notin processed

\* C11: every repair request whose upload was accepted eventually receives a
\* response, also when the external API never answers (the wait on the
\* external call ends with a 500 and the upload removed).
C11_AcceptedEventuallyAnswered ==
    \A r \in Reqs : reqFile[r] ~> Responded(r)

\* C12: in every 200 response of the repair endpoint processedImageUrl is
\* the retrieval route prefix followed by processedFilename, that filename
\* names an artifact present in processedDir, and a GET of processedImageUrl
\* returns that artifact as image/jpeg and not 404.
C12_UrlNamesStoredArtifact ==
    \A r \in Reqs :
        resp[r].status = 200
           => /\ resp[r].processedImageUrl
                    = <<"/api/processed/", resp[r].processedFilename>>
              /\ resp[r].processedFilename \in processed
              /\ LET got == Get(resp[r].processedImageUrl, processed)
                 IN  /\ got.status = 200
                     /\ got.contentType = "image/jpeg"
                     /\ got.file = [dir |-> "processedDir",
                                    name |-> resp[r].processedFilename]

\* C12 witness: two requests answered 200, each with the URL of its own
\* artifact.
C12_Witness ==
    \E r, q \in Reqs :
        /\ r # q /\ resp[r].status = 200 /\ resp[q].status = 200
        /\ resp[r].processedImageUrl # resp[q].processedImageUrl
        /\ Get(resp[r].processedImageUrl, processed).status = 200

\* C13: the retrieval endpoint, given a filename, responds with the stored
\* bytes, Content-Type image/jpeg and a cache directive if and only if a
\* file of that name exists in processedDir; otherwise it responds 404 with
\* a JSON error body.
C13_ServedIffStored ==
    served # NotServed
       => IF served.stored
            THEN /\ served.res.status = 200
                 /\ served.res.contentType = "image/jpeg"
                 /\ served.res.cacheControl = "public, max-age=86400"
                 /\ served.res.file = [dir |-> "processedDir",
                                       name |-> served.filename]
            ELSE /\ served.res.status = 404
                 /\ served.res.error = "Image not found"

\* C14: when the external API answers with a success status and a body that
\* lacks the expected shape (no choices, empty choices, a choice without
\* message, a message without text content) the request fails with 500 and
\* never returns 200: every 200 response carries an analysis that is a
\* string.
C14_AnalysisOf200IsText ==
    \A r \in Reqs :
        resp[r].status = 200 => resp[r].analysis \in Texts

\* C15: every error raised inside the pipeline (optimize, external call,
\* materialize, unlink) is caught in the handler and gives exactly one
\* response, a 500 whose JSON body holds error and the message of the error,
\* sent only after the deletion of the upload has been attempted; no request
\* is answered twice, and none is answered 200 after one of its steps failed.
C15_PipelineErrorGivesOne500 ==
    \A r \in Reqs :
        /\ Count(r, "respond") <= 1
        /\ Responded(r) <=> Did(r, "respond")
        /\ (pc[r] = "done" /\ error[r] # <<>>)
              => /\ Count(r, "respond") = 1
                 /\ resp[r].status = 500
                 /\ resp[r].error = "Image processing failed"
                 /\ resp[r].message = error[r]
                 /\ Len(steps[r]) >= 2
                 /\ steps[r][Len(steps[r])] = "respond"
                 /\ steps[r][Len(steps[r]) - 1] = "unlink"
        /\ resp[r].status = 200
              => error[r] = <<>> /\ ~Did(r, "failure")
        /\ pc[r] = "catch" => error[r] # <<>> /\ ~Responded(r)

\* C15 witness: requests answered 500 after a failed external call and
\* after a failed unlink, each answered once and after an unlink attempt.
C15_Witness ==
    \E r, q \in Reqs :
        /\ pc[r] = "done" /\ Did(r, "failure") /\ resp[r].status = 500
        /\ Count(r, "unlink") = 1 /\ Count(r, "respond") = 1
        /\ pc[q] = "done" /\ Did(q, "artifact") /\ resp[q].status = 500
        /\ resp[q].message = <<"EPERM: unlink">>

\* The requests that have written an artifact.
Wrote == {r \in Reqs : Did(r, "artifact")}

\* C16: under any interleaving of the repair requests processedDir is
\* append-only: each request answered 200 has added exactly one artifact,
\* under a name no other request uses, and every artifact ever written is
\* still there, none overwritten or deleted by another request.
C16_ArtifactStoreAppendOnly ==
    /\ \A r \in Wrote : result[r] \in processed
    /\ \A r, q \in Wrote : r # q => result[r] # result[q]
    /\ Cardinality(processed) = Cardinality(Wrote)
    /\ \A r \in Reqs :
          resp[r].status = 200
             => Count(r, "artifact") = 1 /\ resp[r].processedFilename = result[r]

\* C16 witness: one request answered 200 and another that has just written
\* its artifact; both artifacts are in processedDir.
C16_Witness ==
    \E r, q \in Reqs :
        /\ resp[r].status = 200 /\ pc[q] = "unlink"
        /\ {result[r], result[q]} \subseteq processed
        /\ Cardinality(processed) = 2

\* C17: under any interleaving of the repair requests no two requests share
\* the name of their upload, and the upload of a request stays in uploadsDir
\* until that request itself unlinks it: no request finds its upload deleted
\* by the cleanup of another.
C17_CleanupDeletesOwnUploadOnly ==
    /\ \A r, q \in Reqs : r # q => uniqueName(r) # uniqueName(q)
    /\ \A r \in Reqs :
          (Did(r, "stored") /\ InFlight(r)) => uniqueName(r) \in uploads
    /\ \A r \in Reqs :
          (pc[r] = "done" /\ unlinkOk[r]) => uniqueName(r) \notin uploads

\* C17 witness: a request answered 200, its upload unlinked, while another
\* request is about to unlink its own upload, still in uploadsDir.
C17_Witness ==
    \E r, q \in Reqs :
        /\ resp[r].status = 200 /\ Count(r, "unlink") = 1
        /\ uniqueName(r) \notin uploads
        /\ pc[q] \in {"unlink", "catch"} /\ uniqueName(q) \in uploads

\* C18: for each client IP at most 10 requests to paths under /api/ pass
\* the rate limiter per window; every further request of the window is
\* rejected by the limiter, before any upload is stored or external call
\* made, so one client IP causes at most 10 external calls per window.
C18_AtMostMaxPassPerWindow ==
    \A ip \in IPs :
        /\ limiter[ip].passed <= max
        /\ limiter[ip].passed = IF limiter[ip].hits <= max
                                  THEN limiter[ip].hits ELSE max
        /\ limiter[ip].rejected = limiter[ip].hits - limiter[ip].passed
        /\ limiter[ip].calls <= limiter[ip].passed
        /\ limiter[ip].calls <= max

\* C18 witness: in a later window an IP has sent more than 10 requests, 10
\* of which passed and made their call, the others rejected, while another
\* IP still passes.
C18_Witness ==
    \E ip, other \in IPs :
        /\ limiter[ip].window > 0
        /\ limiter[ip].hits > max /\ limiter[ip].rejected > 0
        /\ limiter[ip].passed = max /\ limiter[ip].calls = max
        /\ limiter[other].hits = 1 /\ limiter[other].passed = 1

\* C19: the stack trace of a failure appears in the 500 body of the repair
\* endpoint (field details) only when the server is not in production mode,
\* and it does appear in development mode, the mode of a server whose
\* NODE_ENV is not set.
C19_StackInDevelopmentOnly ==
    \A r \in Reqs :
        (pc[r] = "done" /\ error[r] # <<>>)
           => /\ resp[r].details # <<>> => environment(nodeEnv) # "production"
              /\ environment(nodeEnv) = "development"
                    => resp[r].details = stack(error[r])

Min(a, b) == IF a <= b THEN a ELSE b

\* C20: for every decodable source image of width w and height h the
\* output of the optimizer has width <= min(w, 1024) and height <=
\* min(h, 1024): it fits inside 1024x1024 and is in neither dimension larger
\* than the source.
C20_OutputFitsBoxAndSource ==
    optimized.out # <<>>
       => /\ optimized.out[1].width <= Min(optimized.w, resizeWidth)
          /\ optimized.out[1].height <= Min(optimized.h, resizeHeight)
          /\ optimized.out[1].width >= 1 /\ optimized.out[1].height >= 1

\* C20 witness: a wide image larger than the box was scaled down to the
\* full width of the box, its height following the aspect ratio.
C20_Witness ==
    /\ optimized.out # <<>>
    /\ optimized.w = 2000 /\ optimized.h = 1500
    /\ optimized.out[1] = [width |-> 1024, height |-> 768]

\* C21: in every 200 response of the repair endpoint the analysis field is
\* the text the external API returned for that same request, unchanged, and
\* originalFilename is the name of the file that request uploaded: the
\* results of concurrent requests are never mixed.
C21_ResponseCarriesOwnAnalysis ==
    \A r \in Reqs :
        resp[r].status = 200
           => /\ resp[r].analysis = upstream[r].content
              /\ resp[r].originalFilename = originalname(r)
              /\ upstream[r].status = 200

\* C21 witness: two requests answered 200, each with the text the API
\* returned to it, the two texts different.
C21_Witness ==
    \E r, q \in Reqs :
        /\ resp[r].status = 200 /\ resp[q].status = 200
        /\ resp[r].analysis = "restore plan X"
        /\ resp[q].analysis = "restore plan Y"
        /\ upstream[r].content = "restore plan X"
        /\ upstream[q].content = "restore plan Y"
        /\ resp[r].originalFilename # resp[q].originalFilename

\* C22: the server never accepts a request without an API key: when
\* OPENROUTER_API_KEY is not set at startup the process exits with code 1
\* before it starts to listen, so every external call carries a configured
\* bearer credential.
C22_NoRequestWithoutKey ==
    /\ server.key \in {"unset", ""}
          => /\ server.state \in {"starting", "exited"}
             /\ server.state = "exited" => server.code = 1
             /\ \A r \in Reqs : pc[r] = "new"
    /\ \A r \in Reqs :
          pc[r] # "new" => server.state = "listening"
    /\ \A r \in Reqs :
          Did(r, "call")
             => Authorization(server.key) = <<"Bearer ", "sk-or-v1-0123">>

\* C22 witness: a server started without a key has exited with code 1, no
\* request accepted.
C22_Witness ==
    /\ server.key = "unset" /\ server.state = "exited" /\ server.code = 1
    /\ \A r \in Reqs : pc[r] = "new"

\* C23: for every filename parameter a client can send, the retrieval
\* endpoint serves only files located directly inside processedDir: no
\* parameter, such as one that decodes to a value with '../', makes it serve
\* a file outside processedDir.
C23_ServesFromProcessedDirOnly ==
    served.res.status = 200
       => /\ served.res.file.dir = "processedDir"
          /\ served.res.file.name \in processed

\* C24: in the serverless handlers the external API is called only for a
\* POST request whose body has a non-empty imageBase64: an OPTIONS request
\* gets 200, any other non-POST method gets 405 and a POST without
\* imageBase64 gets 400, each with no upstream call.
C24_CallOnlyForPostWithImage ==
    /\ relay.calls > 0
          => /\ relay.method = "POST"
             /\ relay.body.parsed
             /\ relay.body.imageBase64 \notin {"undefined", ""}
    /\ relay.pc = "done"
          => /\ relay.method = "OPTIONS"
                   => relay.res.status = 200 /\ relay.calls = 0
             /\ relay.method \notin {"OPTIONS", "POST"}
                   => relay.res.status = 405 /\ relay.calls = 0
             /\ (relay.method = "POST"
                    /\ relay.body.imageBase64 \in {"undefined", ""})
                   => relay.res.status = 400 /\ relay.calls = 0

\* The call of the handler failed upstream: rejected, a non-2xx status, or a
\* success body without choices[0].message.
UpstreamFailed ==
    \/ relay.settled.rejected
    \/ ~ResponseOk(relay.settled.status)
    \/ ~relay.settled.json
    \/ invalidFormat(relay.settled.data)

\* C25: in the serverless handlers that call OpenRouter every upstream
\* failure (a non-2xx status with any body, a success body without
\* choices[0].message, a network error) produces exactly one 500 response
\* with error 'Error processing image', whose message carries the upstream
\* status and error body when the upstream answered with a non-2xx status,
\* and never a 200; a 200 with success true is returned only when the
\* upstream call succeeded with a well-formed body.
C25_UpstreamFailureGives500 ==
    (relay.pc = "done" /\ relay.calls > 0 /\ usesFetch(relay.file))
       => /\ relay.sent = 1
          /\ UpstreamFailed
                => /\ relay.res.status = 500
                   /\ relay.res.error = "Error processing image"
          /\ (~relay.settled.rejected /\ ~ResponseOk(relay.settled.status))
                => \E i, j \in DOMAIN relay.res.message :
                      /\ relay.res.message[i] = statusText(relay.settled.status)
                      /\ relay.res.message[j] = "errorData"
          /\ relay.res.status = 200
                => relay.res.success /\ ~UpstreamFailed

\* The moves of the status of an image that C26 allows, the appearance of
\* the image included.
AllowedMoves ==
    {<<"none", "uploaded">>, <<"uploaded", "processing">>,
     <<"processing", "completed">>, <<"processing", "error">>,
     <<"error", "processing">>}

C27_ProcessingEnds ==
    \A i \in Imgs :
        (ui.images[i].status = "processing")
           ~> (ui.images[i].status \in {"completed", "error"})

\* C27 witness: in the second version an image has ended in 'error' because
\* the answer held no result.
C27_Witness ==
    \E i \in Imgs :
        /\ ui.version = "proxy"
        /\ ui.images[i].status = "error"
        /\ ui.images[i].error = "Invalid API response"

\* C28: in the browser UI with the global loading indicator, isProcessing
\* is true exactly when at least one image has status 'processing'.
C28_IndicatorIffProcessing ==
    ui.version = "proxy"
       => (ui.isProcessing
             <=> \E i \in Imgs : ui.images[i].status = "processing")

\* C29: in the browser UI the status badge of an image shows 'Completed'
\* only when the status is 'completed', 'Ready' only for 'uploaded' and
\* 'Processing' only for 'processing': an image whose status is 'error' is
\* never labelled 'Completed'.
C29_BadgeMatchesStatus ==
    \A i \in Imgs :
        ui.images[i].status # "none"
           => /\ badge(ui.images[i].status) = "Completed"
                    => ui.images[i].status = "completed"
              /\ badge(ui.images[i].status) = "Ready"
                    => ui.images[i].status = "uploaded"
              /\ badge(ui.images[i].status) = "Processing"
                    => ui.images[i].status = "processing"

\* C30: in the development launcher, whenever one of the two child
\* processes exits the other one is killed, at whatever moment the exit
\* happens: no child is left running alone, without the signal of kill(),
\* after the other has closed.
C30_NoChildRunsAlone ==
    /\ (launcher.backend.state = "closed"
          /\ launcher.frontend.state = "running")
         => launcher.frontend.killed
    /\ (launcher.frontend.state = "closed"
          /\ launcher.backend.state = "running")
         => launcher.backend.killed

====
